---- MODULE Spec2Model ----
(***************************************************************************)
(* Observational Memory pipeline of claude-om: the observer Stop hook      *)
(* (hooks/observer.py), the reflector PreCompact hook (hooks/reflector.py) *)
(* and the SessionStart context loader (hooks/load-observations.py).       *)
(*                                                                         *)
(* Texts are Python strings.  A text is kept run-length encoded: a         *)
(* sequence of runs [c |-> character, n |-> repetitions], adjacent runs    *)
(* having different characters, so that texts of tens of thousands of      *)
(* characters keep their real length and still compare by content.         *)
(***************************************************************************)
EXTENDS Integers, Sequences, FiniteSets, TLC

\* ------------------------------------------------------------------ texts

\* The empty string ''.
Empty == <<>>

\* c * n
Rep(c, n) == IF n <= 0 THEN <<>> ELSE << [c |-> c, n |-> n] >>

\* a + b
Cat(a, b) ==
    IF a = <<>> THEN b
    ELSE IF b = <<>> THEN a
    ELSE IF a[Len(a)].c = b[1].c
         THEN SubSeq(a, 1, Len(a) - 1)
              \o << [c |-> b[1].c, n |-> a[Len(a)].n + b[1].n] >>
              \o Tail(b)
         ELSE a \o b

\* A string literal, written as the sequence of its characters.  (The
\* recursions on texts halve their argument, which keeps them shallow.)
RECURSIVE Str(_)
Str(chars) ==
    IF chars = <<>> THEN <<>>
    ELSE IF Len(chars) = 1 THEN Rep(chars[1], 1)
    ELSE LET h == Len(chars) \div 2 IN
         Cat(Str(SubSeq(chars, 1, h)), Str(SubSeq(chars, h + 1, Len(chars))))

\* len(t)
RECURSIVE strlen(_)
strlen(t) ==
    IF t = <<>> THEN 0
    ELSE IF Len(t) = 1 THEN t[1].n
    ELSE LET h == Len(t) \div 2 IN
         strlen(SubSeq(t, 1, h)) + strlen(SubSeq(t, h + 1, Len(t)))

\* Offsets(t)[j]: the length of the first j runs of t.
RECURSIVE Offsets(_)
Offsets(t) ==
    IF t = <<>> THEN <<>>
    ELSE IF Len(t) = 1 THEN << t[1].n >>
    ELSE LET h == Len(t) \div 2
             a == Offsets(SubSeq(t, 1, h))
             b == Offsets(SubSeq(t, h + 1, Len(t)))
         IN a \o [i \in 1..Len(b) |-> b[i] + a[h]]

\* The offset at which run j of t starts, off being Offsets(t).
RunStart(off, j) == IF j = 1 THEN 0 ELSE off[j - 1]

\* The run of t that holds the character at offset k (0 <= k < len(t)).
RunAt(off, k) == CHOOSE j \in 1..Len(off) : RunStart(off, j) <= k /\ k < off[j]

\* t[k:] for 0 <= k
Drop(t, k) ==
    IF k <= 0 THEN t
    ELSE LET off == Offsets(t) IN
         IF t = <<>> \/ k >= off[Len(t)] THEN <<>>
         ELSE LET j == RunAt(off, k) IN
              << [c |-> t[j].c, n |-> off[j] - k] >> \o SubSeq(t, j + 1, Len(t))

\* t[:k] for 0 <= k
Take(t, k) ==
    IF k <= 0 THEN <<>>
    ELSE LET off == Offsets(t) IN
         IF t = <<>> \/ k >= off[Len(t)] THEN t
         ELSE LET j == RunAt(off, k) IN
              SubSeq(t, 1, j - 1)
              \o (IF k > RunStart(off, j)
                  THEN << [c |-> t[j].c, n |-> k - RunStart(off, j)] >> ELSE <<>>)

\* t[-k:] for k > 0: the trailing k characters, the whole text when it is shorter.
LastChars(t, k) == IF strlen(t) <= k THEN t ELSE Drop(t, strlen(t) - k)

\* Characters str.strip() removes, and characters the regex class \w matches.
\* The backtick, which a TLA+ string cannot hold, is the character "BT".
IsSpace(c) == c \in {" ", "\n"}
IsWord(c) ==
    c \notin {" ", "\n", "BT", "<", ">", "/", "-", "[", "]", ":", ".", "#", "?", ","}

\* t.strip(): from the first to the last run that is not whitespace.
strip(t) ==
    LET solid == {i \in 1..Len(t) : ~IsSpace(t[i].c)} IN
    IF solid = {} THEN <<>>
    ELSE SubSeq(t, CHOOSE i \in solid : \A j \in solid : i <= j,
                   CHOOSE i \in solid : \A j \in solid : i >= j)

\* sep.join(parts)
RECURSIVE join(_, _)
join(sep, parts) ==
    IF parts = <<>> THEN <<>>
    ELSE IF Len(parts) = 1 THEN parts[1]
    ELSE LET h == Len(parts) \div 2 IN
         Cat(join(sep, SubSeq(parts, 1, h)),
             Cat(sep, join(sep, SubSeq(parts, h + 1, Len(parts)))))

\* Whether pat (not empty) occurs in t starting inside run j of t.
MatchAt(t, pat, j) ==
    LET k == Len(pat) IN
    /\ j + k - 1 <= Len(t)
    /\ t[j].c = pat[1].c
    /\ t[j].n >= pat[1].n
    /\ \A i \in 2..(k - 1) : t[j + i - 1] = pat[i]
    /\ k > 1 => /\ t[j + k - 1].c = pat[k].c
                /\ t[j + k - 1].n >= pat[k].n

\* t.find(pat): the offset of the leftmost occurrence of pat in t, -1 when none.
find(t, pat) ==
    LET hits == {j \in 1..Len(t) : MatchAt(t, pat, j)} IN
    IF hits = {} THEN -1
    ELSE LET j == CHOOSE h \in hits : \A g \in hits : h <= g IN
         strlen(SubSeq(t, 1, j - 1))
         + (IF Len(pat) > 1 THEN t[j].n - pat[1].n ELSE 0)

\* ----------------------------------------------------- values and files

\* Python's None, where a text is expected: a run no text holds.
None == << [c |-> "None", n |-> 0] >>

\* A file that does not exist, where a file's content is expected.
NoFile == << [c |-> "NoFile", n |-> 0] >>

\* The transcript paths of one project: both lie under the same
\* .claude/projects/<project> directory, so get_memory_dir gives both the
\* same memory directory.
Paths == {"T1", "T2"}

\* ------------------------------------------------------------ transcript

\* One line of a JSONL transcript file: blank, not JSON ("bad"), or an entry.
BlankLine == [kind |-> "blank", type |-> "", content |-> "none", text |-> Empty,
              blocks |-> <<>>, summary |-> Empty]
BadLine == [BlankLine EXCEPT !.kind = "bad"]

\* An entry whose content is a string.
StrEntry(type, text) ==
    [kind |-> "entry", type |-> type, content |-> "str", text |-> text,
     blocks |-> <<>>, summary |-> Empty]

\* An entry whose content is a list of content blocks.
ListEntry(type, blocks) ==
    [kind |-> "entry", type |-> type, content |-> "list", text |-> Empty,
     blocks |-> blocks, summary |-> Empty]

\* A summary entry.
SummaryEntry(summary) ==
    [kind |-> "entry", type |-> "summary", content |-> "none", text |-> Empty,
     blocks |-> <<>>, summary |-> summary]

\* Content blocks: a text block, a bare string, a tool_use block with the
\* tool's name and the input field its summary shows (None: the field is absent).
TextBlock(text) == [type |-> "text", text |-> text, name |-> Empty, input |-> None]
StringBlock(text) == [type |-> "str", text |-> text, name |-> Empty, input |-> None]
ToolUseBlock(name, input) ==
    [type |-> "tool_use", text |-> Empty, name |-> name, input |-> input]

\* read_transcript: the entries of the parsable lines, each with its line number
\* (enumerate counts every line, the skipped ones too).
RECURSIVE read_lines(_, _)
read_lines(lines, line_num) ==
    IF lines = <<>> THEN <<>>
    ELSE (IF lines[1].kind = "entry"
          THEN << [entry |-> lines[1], _line_num |-> line_num] >>
          ELSE <<>>)
         \o read_lines(Tail(lines), line_num + 1)

read_transcript(file) == IF file = NoFile THEN <<>> ELSE read_lines(file, 0)

\* ------------------------------------------------------------- formatter

ToolNames ==
    [Bash |-> Str(<<"B","a","s","h">>), Read |-> Str(<<"R","e","a","d">>), Write |-> Str(<<"W","r","i","t","e">>), Edit |-> Str(<<"E","d","i","t">>),
     Glob |-> Str(<<"G","l","o","b">>), Grep |-> Str(<<"G","r","e","p">>), Task |-> Str(<<"T","a","s","k">>),
     WebFetch |-> Str(<<"W","e","b","F","e","t","c","h">>), WebSearch |-> Str(<<"W","e","b","S","e","a","r","c","h">>)]

\* The label a tool's summary starts with.
ToolLabels ==
    [Bash |-> Str(<<"R","a","n">>), Read |-> Str(<<"R","e","a","d">>), Write |-> Str(<<"W","r","o","t","e">>), Edit |-> Str(<<"E","d","i","t","e","d">>),
     Glob |-> Str(<<"G","l","o","b">>), Grep |-> Str(<<"G","r","e","p">>), Task |-> Str(<<"D","e","l","e","g","a","t","e","d">>),
     WebFetch |-> Str(<<"F","e","t","c","h","e","d">>), WebSearch |-> Str(<<"S","e","a","r","c","h","e","d">>)]

Bracketed(label, text) ==
    Cat(Rep("[", 1), Cat(label, Cat(Str(<<":", " ">>), Cat(text, Rep("]", 1)))))

\* _summarize_tool_use
_summarize_tool_use(tool_name, tool_input) ==
    LET get(default) == IF tool_input = None THEN default ELSE tool_input
        known == {k \in DOMAIN ToolNames : ToolNames[k] = tool_name}
    IN Bracketed(IF known = {} THEN Str(<<"T","o","o","l">>)
                 ELSE ToolLabels[CHOOSE k \in known : TRUE],
                 IF known = {} THEN tool_name
                 ELSE IF tool_name = ToolNames.Bash THEN Take(get(Empty), 200)
                 ELSE get(Rep("?", 1)))

\* The one-element list of a truthy text, the empty list of ''.
truthy(text) == IF text # Empty THEN << text >> ELSE <<>>

\* _extract_text_from_content, for a list: the text blocks and bare strings.
RECURSIVE user_texts(_)
user_texts(blocks) ==
    IF blocks = <<>> THEN <<>>
    ELSE (IF blocks[1].type \in {"text", "str"} THEN << blocks[1].text >> ELSE <<>>)
         \o user_texts(Tail(blocks))

_extract_text_from_content(entry) ==
    IF entry.content = "str" THEN entry.text
    ELSE IF entry.content = "list" THEN join(Rep(" ", 1), user_texts(entry.blocks))
    ELSE Empty

\* _extract_assistant_content, for a list: stripped non-empty text blocks, tool
\* summaries and bare strings.
RECURSIVE assistant_texts(_)
assistant_texts(blocks) ==
    IF blocks = <<>> THEN <<>>
    ELSE (CASE blocks[1].type = "text" -> truthy(strip(blocks[1].text))
            [] blocks[1].type = "tool_use" ->
                 << _summarize_tool_use(blocks[1].name, blocks[1].input) >>
            [] blocks[1].type = "str" -> << blocks[1].text >>
            [] OTHER -> <<>>)
         \o assistant_texts(Tail(blocks))

_extract_assistant_content(entry) ==
    IF entry.content = "str" THEN entry.text
    ELSE IF entry.content = "list" THEN join(Rep(" ", 1), assistant_texts(entry.blocks))
    ELSE Empty

\* extract_text_content: the formatted line of an entry, '' when it has none.
extract_text_content(entry) ==
    LET labelled(label, text) == IF text # Empty THEN Cat(label, text) ELSE Empty
    IN IF entry.type \in {"human", "user"}
       THEN labelled(Str(<<"[","U","s","e","r","]",":"," ">>),
                     _extract_text_from_content(entry))
       ELSE IF entry.type = "assistant"
       THEN labelled(Str(<<"[","A","s","s","i","s","t","a","n","t","]",":"," ">>),
                     _extract_assistant_content(entry))
       ELSE IF entry.type = "summary"
       THEN labelled(
                Str(<<"[","C","o","n","t","e","x","t"," ","S","u","m","m","a","r","y","]",":"," ">>),
                entry.summary)
       ELSE Empty

\* The non-empty formatted lines of the messages, in order.
RECURSIVE formatted_lines(_)
formatted_lines(messages) ==
    IF messages = <<>> THEN <<>>
    ELSE truthy(extract_text_content(messages[1].entry))
         \o formatted_lines(Tail(messages))

\* format_messages_for_observer
format_messages_for_observer(messages) ==
    join(Str(<<"\n", "\n">>), formatted_lines(messages))

\* ------------------------------------------------------------ constants

\* observer.py: minimum new content before the engine is called, and the size
\* of the observations file that triggers the reflector.
MIN_NEW_CONTENT_CHARS == 2000
REFLECTION_THRESHOLD_CHARS == 40000
\* observer.py main: the cap on the user prompt and the tail kept beyond it.
MAX_PROMPT_CHARS == 80000
TRUNCATED_TEXT_CHARS == 50000
\* The shortest result the reflector accepts, in run_reflector and in reflect.
MIN_RESULT_CHARS_AUTO == 100
MIN_RESULT_CHARS_EXPLICIT == 50
\* reflector.py: minimum size of the observations file worth reflecting.
MIN_REFLECT_CHARS == 5000
\* load-observations.py
MAX_CONTEXT_CHARS == 60000

\* ----------------------------------------------------------- cursor state

\* The default load_state returns: no state file, or one that is not JSON.
DefaultState ==
    [last_observed_line |-> 0, transcript_path |-> "",
     current_task |-> None, suggested_response |-> None]

\* .observer-state.json: absent, unreadable as JSON, or the saved object.
\* (last_observed_at, a timestamp no code reads back, is left out.)
NoStateFile == [exists |-> FALSE, corrupt |-> FALSE, json |-> DefaultState]

\* A faulty variant of load_state: whatever the file holds is taken.
load_state_trusting(file) == file.json

\* load_state
load_state(file) ==
    IF file.exists /\ ~file.corrupt THEN file.json ELSE DefaultState

\* A faulty variant of save_state: the two optional keys are never written.
save_state_bare(last_line, transcript_path, current_task, suggested_response) ==
    [exists |-> TRUE, corrupt |-> FALSE,
     json |-> [last_observed_line |-> last_line,
               transcript_path |-> transcript_path,
               current_task |-> None, suggested_response |-> None]]

\* save_state: the whole file is overwritten; the two optional keys are written
\* only when their value is truthy.
save_state(last_line, transcript_path, current_task, suggested_response) ==
    [exists |-> TRUE, corrupt |-> FALSE,
     json |-> [last_observed_line |-> last_line,
               transcript_path |-> transcript_path,
               current_task |->
                   IF current_task \in {None, Empty} THEN None ELSE current_task,
               suggested_response |->
                   IF suggested_response \in {None, Empty} THEN None
                   ELSE suggested_response]]

\* --------------------------------------------------------------- prompts

\* The prompt templates the repository ships in hooks/prompts.
PromptFiles == {"observer-system", "reflector-system"}

\* load_prompt: the template's text, '' when the file is missing.
load_prompt(name) == IF name \in PromptFiles THEN Rep("p", 1) ELSE Empty

\* build_observer_prompt: the prompt's two variable parts and its length (the
\* fixed headings and the task paragraph with its 10-character date count by
\* their length: 116 characters around the previous observations, 281 around
\* the new messages).
build_observer_prompt(new_messages_text, existing_observations) ==
    [existing |-> strip(existing_observations),
     new_messages_text |-> new_messages_text,
     len |-> (IF strip(existing_observations) # Empty
              THEN 116 + strlen(strip(existing_observations)) ELSE 0)
             + 281 + strlen(new_messages_text)]

\* ---------------------------------------------------------------- engine

\* What subprocess.run(['claude', '-p', ...]) does: it raises, or it returns
\* with a return code, stdout and stderr.
Proc(exc, returncode, stdout, stderr) ==
    [exc |-> exc, returncode |-> returncode, stdout |-> stdout, stderr |-> stderr]

\* A faulty variant of call_claude: OM_HOOK_ACTIVE is not looked at.
call_claude_unguarded(hook_active, proc) ==
    IF proc.exc # "none" THEN None
    ELSE IF proc.returncode = 0 /\ strip(proc.stdout) # Empty THEN strip(proc.stdout)
    ELSE None

\* call_claude: the stripped stdout of a successful run, None otherwise.  (The
\* lines it writes to om-error.log, a file no hook reads, are not kept.)
call_claude(hook_active, proc) ==
    IF hook_active THEN None
    ELSE IF proc.exc # "none" THEN None
    ELSE IF proc.returncode = 0 /\ strip(proc.stdout) # Empty THEN strip(proc.stdout)
    ELSE None

\* ---------------------------------------------------------------- parser

OBS_OPEN == Str(<<"<","o","b","s","e","r","v","a","t","i","o","n","s",">">>)
OBS_CLOSE == Str(<<"<","/","o","b","s","e","r","v","a","t","i","o","n","s",">">>)
TASK_OPEN == Str(<<"<","c","u","r","r","e","n","t","-","t","a","s","k",">">>)
TASK_CLOSE == Str(<<"<","/","c","u","r","r","e","n","t","-","t","a","s","k",">">>)
RESP_OPEN == Str(<<"<","s","u","g","g","e","s","t","e","d","-","r","e","s","p","o","n","s","e",">">>)
RESP_CLOSE == Str(<<"<","/","s","u","g","g","e","s","t","e","d","-","r","e","s","p","o","n","s","e",">">>)
NO_NEW_OBSERVATIONS == Str(<<"N","O","_","N","E","W","_","O","B","S","E","R","V","A","T","I","O","N","S">>)

\* re.search(open + '(.*?)' + close, t, re.DOTALL): group(1), the text between
\* the first open and the first close after it; None when there is no match.
search_section(t, open, close) ==
    LET upto(rest, j) == IF j < 0 THEN None ELSE Take(rest, j)
        after(rest) == upto(rest, find(rest, close))
        from(i) == IF i < 0 THEN None ELSE after(Drop(t, i + strlen(open)))
    IN from(find(t, open))

\* re.sub(open + '.*?' + close, '', t, flags=re.DOTALL): every such span removed.
RECURSIVE sub_section(_, _, _)
sub_section(t, open, close) ==
    LET without(i, rest, j) ==
            IF j < 0 THEN t
            ELSE Cat(Take(t, i), sub_section(Drop(rest, j + strlen(close)), open, close))
        after(i, rest) == without(i, rest, find(rest, close))
        from(i) == IF i < 0 THEN t ELSE after(i, Drop(t, i + strlen(open)))
    IN from(find(t, open))

\* parse_observer_output
parse_observer_output(raw_output) ==
    LET fallback == strip(sub_section(sub_section(raw_output, TASK_OPEN, TASK_CLOSE),
                                      RESP_OPEN, RESP_CLOSE))
        observations(group) == IF group = None THEN fallback ELSE strip(group)
        or_none(text) == IF text = Empty THEN None ELSE text
        section(group) == IF group = None THEN None ELSE or_none(strip(group))
    IN [observations |->
            observations(search_section(raw_output, OBS_OPEN, OBS_CLOSE)),
        current_task |->
            section(search_section(raw_output, TASK_OPEN, TASK_CLOSE)),
        suggested_response |->
            section(search_section(raw_output, RESP_OPEN, RESP_CLOSE))]

\* The leading word characters of t removed (what \w* consumes).
drop_word(t) ==
    LET other == {i \in 1..Len(t) : ~IsWord(t[i].c)} IN
    IF other = {} THEN <<>>
    ELSE SubSeq(t, CHOOSE i \in other : \A j \in other : i <= j, Len(t))

\* re.sub(r'^```\w*\n?', '', t): an opening code fence at the very start.
sub_fence_open(t) ==
    LET drop_newline(w) == IF w # <<>> /\ w[1].c = "\n" THEN Drop(w, 1) ELSE w
    IN IF t # <<>> /\ t[1].c = "BT" /\ t[1].n >= 3
       THEN IF t[1].n > 3 THEN Drop(t, 3) ELSE drop_newline(drop_word(Tail(t)))
       ELSE t

\* t without its last three backticks and, when nothing but a newline precedes
\* them in the match, that newline (t ends with at least three backticks).
cut_fence(t) ==
    LET m == Len(t)
        drop_newline(cut) ==
            IF t[m].n = 3 /\ cut # <<>> /\ cut[Len(cut)].c = "\n"
            THEN Take(cut, strlen(cut) - 1)
            ELSE cut
    IN drop_newline(IF t[m].n > 3 THEN Take(t, strlen(t) - 3)
                    ELSE SubSeq(t, 1, m - 1))

\* re.sub(r'\n?```$', '', t): a closing code fence at the end; $ also matches
\* just before a newline that ends the text.
sub_fence_close(t) ==
    LET m == Len(t) IN
    IF t # <<>> /\ t[m].c = "BT" /\ t[m].n >= 3 THEN cut_fence(t)
    ELSE IF m >= 2 /\ t[m].c = "\n" /\ t[m].n = 1
            /\ t[m - 1].c = "BT" /\ t[m - 1].n >= 3
    THEN Cat(cut_fence(SubSeq(t, 1, m - 1)), Rep("\n", 1))
    ELSE t

\* observer.py main: "Clean up the observations".
clean_observations(observations_text) ==
    strip(sub_fence_close(sub_fence_open(observations_text)))

\* ------------------------------------------------------------- observer

\* max(m.get('_line_num', 0) for m in all_messages), for a non-empty list.
max_line_num(all_messages) ==
    CHOOSE n \in {all_messages[i]._line_num : i \in 1..Len(all_messages)} :
        \A i \in 1..Len(all_messages) : all_messages[i]._line_num <= n

\* [m for m in all_messages if m.get('_line_num', 0) >= last_line]
RECURSIVE select_new(_, _)
select_new(all_messages, last_line) ==
    IF all_messages = <<>> THEN <<>>
    ELSE (IF all_messages[1]._line_num >= last_line THEN << all_messages[1] >>
          ELSE <<>>)
         \o select_new(Tail(all_messages), last_line)

\* Faulty variants of start_line: the stored cursor is used whatever transcript
\* it belongs to; the stored cursor is never used.
start_line_kept(state, transcript_path) == state.last_observed_line
start_line_zero(state, transcript_path) == 0

\* observer.py main, lines 398-404: the line the selection starts from; the
\* cursor is reset when the stored transcript path is not this transcript.
start_line(state, transcript_path) ==
    IF state.transcript_path # transcript_path THEN 0
    ELSE state.last_observed_line

\* Faulty variants of next_cursor: the number of messages selected; the number
\* of entries read.
next_cursor_count(all_messages, new_messages) == Len(new_messages)
next_cursor_entries(all_messages, new_messages) == Len(all_messages)

\* observer.py main, lines 437 and 462: the cursor saved after an engine call.
next_cursor(all_messages, new_messages) == max_line_num(all_messages) + 1

\* A faulty variant of below_minimum: the comparison is off by one.
below_minimum_lax(new_text) == strlen(new_text) < MIN_NEW_CONTENT_CHARS - 1

\* observer.py main, line 412: the delta is too short to call the engine.
below_minimum(new_text) == strlen(new_text) < MIN_NEW_CONTENT_CHARS

\* A faulty variant of observer_prompt: the head of the new text is kept, not
\* its tail.
observer_prompt_head(new_text, existing) ==
    LET user_prompt == build_observer_prompt(new_text, existing) IN
    IF user_prompt.len > MAX_PROMPT_CHARS
    THEN build_observer_prompt(Take(new_text, TRUNCATED_TEXT_CHARS), existing)
    ELSE user_prompt

\* observer.py main, lines 426-431: the user prompt, rebuilt from the tail of
\* the new text when it is longer than the cap.
observer_prompt(new_text, existing) ==
    LET user_prompt == build_observer_prompt(new_text, existing) IN
    IF user_prompt.len > MAX_PROMPT_CHARS
    THEN build_observer_prompt(LastChars(new_text, TRUNCATED_TEXT_CHARS), existing)
    ELSE user_prompt

\* observer.py main, lines 370-431: everything up to the engine call.  stage
\* names the return taken, "engine" when the engine is to be called.
observer_select(transcript_path, hook_active, stop_hook_active, files) ==
    LET staged(all_messages, state, last_line, new_messages, new_text, existing) ==
            [stage |->
                 IF all_messages = <<>> THEN "empty_transcript"
                 ELSE IF new_messages = <<>> THEN "no_new_messages"
                 ELSE IF below_minimum(new_text) THEN "below_minimum"
                 ELSE IF load_prompt("observer-system") = Empty THEN "no_prompt"
                 ELSE "engine",
             all_messages |-> all_messages,
             state |-> state,
             last_line |-> last_line,
             new_messages |-> new_messages,
             new_text |-> new_text,
             existing |-> existing,
             user_prompt |-> observer_prompt(new_text, existing)]
        selected(all_messages, state, last_line, new_messages) ==
            staged(all_messages, state, last_line, new_messages,
                   format_messages_for_observer(new_messages),
                   IF files.obs_file = NoFile THEN Empty ELSE strip(files.obs_file))
        started(all_messages, state, last_line) ==
            selected(all_messages, state, last_line,
                     select_new(all_messages, last_line))
        loaded(all_messages, state) ==
            started(all_messages, state, start_line(state, transcript_path))
        returned(stage) ==
            [stage |-> stage, all_messages |-> <<>>, state |-> DefaultState,
             last_line |-> 0, new_messages |-> <<>>, new_text |-> Empty,
             existing |-> Empty, user_prompt |-> build_observer_prompt(Empty, Empty)]
    IN IF hook_active THEN returned("hook_active")
       ELSE IF stop_hook_active THEN returned("stop_hook_active")
       ELSE IF files.transcripts[transcript_path] = NoFile
       THEN returned("no_transcript")
       ELSE loaded(read_transcript(files.transcripts[transcript_path]),
                   load_state(files.state_file))

\* A faulty variant of nothing_new: the sentinel is not recognised.
nothing_new_none(result) == result = None

\* observer.py main, line 435: the engine gave nothing to record.
nothing_new(result) == result = None \/ strip(result) = NO_NEW_OBSERVATIONS

\* A faulty variant of append_observations: the file is opened for writing,
\* not for appending.
append_overwrite(obs_file, existing, observations_text) ==
    Cat(observations_text, Rep("\n", 1))

\* A faulty variant of append_observations: the store is written again from
\* what was read before the engine call.
append_rewriting(obs_file, existing, observations_text) ==
    Cat(existing,
        Cat(IF existing # Empty THEN Str(<<"\n", "\n">>) ELSE Empty,
            Cat(observations_text, Rep("\n", 1))))

\* A faulty variant of append_observations: the separator is never written.
append_no_separator(obs_file, existing, observations_text) ==
    Cat(IF obs_file = NoFile THEN Empty ELSE obs_file,
        Cat(observations_text, Rep("\n", 1)))

\* observer.py main, lines 455-459: the observations file after the append
\* (opening a missing file for append creates it).
append_observations(obs_file, existing, observations_text) ==
    Cat(IF obs_file = NoFile THEN Empty ELSE obs_file,
        Cat(IF existing # Empty THEN Str(<<"\n", "\n">>) ELSE Empty,
            Cat(observations_text, Rep("\n", 1))))

\* observer.py main, lines 433-447: what the observer makes of one engine
\* call: the result and, unless the engine gave nothing to record, the
\* cleaned observations text with the task and the response.
extraction(proc) ==
    LET recorded(result, parsed) ==
            [result |-> result, nothing |-> FALSE,
             observations_text |-> clean_observations(parsed.observations),
             current_task |-> parsed.current_task,
             suggested_response |-> parsed.suggested_response]
        made_of(result) ==
            IF nothing_new(result)
            THEN [result |-> result, nothing |-> TRUE,
                  observations_text |-> Empty,
                  current_task |-> None, suggested_response |-> None]
            ELSE recorded(result, parse_observer_output(result))
    IN made_of(call_claude(FALSE, proc))

\* A faulty variant of observer_commit: when the engine gave nothing to
\* record, the task and the response of the state that was loaded are saved
\* again.
observer_commit_merging(transcript_path, sel, ext, obs_file) ==
    LET cursor == next_cursor(sel.all_messages, sel.new_messages) IN
    IF ext.nothing
    THEN [appended |-> FALSE, obs_file |-> obs_file,
          state_file |-> save_state(cursor, transcript_path,
                                    sel.state.current_task,
                                    sel.state.suggested_response)]
    ELSE [appended |-> ext.observations_text # Empty,
          obs_file |-> IF ext.observations_text = Empty THEN obs_file
                       ELSE append_observations(obs_file, sel.existing,
                                                ext.observations_text),
          state_file |-> save_state(cursor, transcript_path, ext.current_task,
                                    ext.suggested_response)]

\* observer.py main, lines 435-463: the files after the engine call.
observer_commit(transcript_path, sel, ext, obs_file) ==
    LET cursor == next_cursor(sel.all_messages, sel.new_messages) IN
    IF ext.nothing
    THEN [appended |-> FALSE, obs_file |-> obs_file,
          state_file |-> save_state(cursor, transcript_path, None, None)]
    ELSE [appended |-> ext.observations_text # Empty,
          obs_file |-> IF ext.observations_text = Empty THEN obs_file
                       ELSE append_observations(obs_file, sel.existing,
                                                ext.observations_text),
          state_file |-> save_state(cursor, transcript_path, ext.current_task,
                                    ext.suggested_response)]

\* A faulty variant of reflection_needed: the reflector is run after every
\* append.
reflection_needed_always(updated_content) == TRUE

\* observer.py main, line 467: the reflector is run after the append.
reflection_needed(updated_content) ==
    strlen(updated_content) >= REFLECTION_THRESHOLD_CHARS

\* ------------------------------------------------------------ reflection

\* A faulty variant of ArchiveEntry: the condensed text is archived.
ArchiveEntry_after(content, after, ratio) ==
    [before_chars |-> strlen(content), after_chars |-> strlen(after),
     ratio |-> ratio, content |-> after]

\* An entry of reflections.log: the sizes before and after, whether the entry
\* has the compression-ratio line (reflector.py writes it, observer.py does
\* not), and the pre-reflection content.
ArchiveEntry(content, after, ratio) ==
    [before_chars |-> strlen(content), after_chars |-> strlen(after),
     ratio |-> ratio, content |-> content]

\* A faulty variant of write_archive: the log is opened for writing, not for
\* appending.
write_archive_truncating(archive, entry, io) ==
    IF io = "ok" THEN << entry >> ELSE archive

\* The append to reflections.log: it succeeds, or open() raises IOError, which
\* is caught and passed over, and nothing is written.
write_archive(archive, entry, io) ==
    IF io = "ok" THEN Append(archive, entry) ELSE archive

\* observer.py run_reflector, line 346: the result is unusable.
rejected_auto(result) ==
    result = None \/ result = Empty \/ strlen(strip(result)) < MIN_RESULT_CHARS_AUTO

\* A faulty variant of rejected_explicit: the length is not looked at.
rejected_missing(result) == result = None \/ result = Empty

\* reflector.py reflect, line 145: the result is unusable.
rejected_explicit(result) ==
    result = None \/ result = Empty
    \/ strlen(strip(result)) < MIN_RESULT_CHARS_EXPLICIT

\* reflector.py reflect, lines 149-151: the result without its code fences.
clean_reflected(result) == sub_fence_close(sub_fence_open(strip(result)))

\* observer.py run_reflector, lines 345-347 and 364: what it makes of one
\* engine call: the result, whether it is refused, and the text that
\* replaces the observations.
auto_reflection(proc) ==
    LET made_of(result, rejected) ==
            [result |-> result, rejected |-> rejected,
             reflected |-> IF rejected THEN Empty ELSE strip(result)]
        called(result) == made_of(result, rejected_auto(result))
    IN called(call_claude(FALSE, proc))

\* reflector.py reflect, lines 144-151, the same.  hook_active is
\* OM_HOOK_ACTIVE as call_claude reads it (main returns before reflect when it
\* is set; the --force entry does not look at it).
explicit_reflection(hook_active, proc) ==
    LET made_of(result, rejected) ==
            [result |-> result, rejected |-> rejected,
             reflected |-> IF rejected THEN Empty ELSE clean_reflected(result)]
        called(result) == made_of(result, rejected_explicit(result))
    IN called(call_claude(hook_active, proc))

\* The files a compaction opens for writing, in the order it opens them:
\* the log first (reflector.py 155-166, observer.py 351-361), then the store
\* (reflector.py 169, observer.py 364).
CompactionWrites == << "reflections.log", "observations.md" >>

\* observer.py run_reflector, given what the engine call gave.  outcome names
\* the return taken.
run_reflector(obs_file, archive, refl, io) ==
    LET content == obs_file
        unchanged == [outcome |-> "", obs_file |-> obs_file, archive |-> archive,
                      result |-> None, writes |-> <<>>]
    IN IF obs_file = NoFile THEN [unchanged EXCEPT !.outcome = "no_file"]
       ELSE IF strlen(content) < REFLECTION_THRESHOLD_CHARS
       THEN [unchanged EXCEPT !.outcome = "small"]
       ELSE IF load_prompt("reflector-system") = Empty
       THEN [unchanged EXCEPT !.outcome = "no_prompt"]
       ELSE IF refl.rejected
       THEN [unchanged EXCEPT !.outcome = "rejected", !.result = refl.result]
       ELSE [outcome |-> "replaced", result |-> refl.result,
             archive |-> write_archive(archive,
                             ArchiveEntry(content, refl.result, FALSE), io),
             obs_file |-> Cat(refl.reflected, Rep("\n", 1)),
             writes |-> CompactionWrites]

\* reflector.py reflect, lines 119-132: the return taken before the engine is
\* called, "" when it is called.
reflect_guard(obs_file, force) ==
    IF obs_file = NoFile THEN "no_file"
    ELSE IF strip(obs_file) = Empty THEN "empty"
    ELSE IF ~force /\ strlen(obs_file) < MIN_REFLECT_CHARS THEN "small"
    ELSE IF load_prompt("reflector-system") = Empty THEN "no_prompt"
    ELSE ""

\* A faulty variant of reflect: an IOError of the log is not caught, and the
\* store is not reached.
reflect_unswallowed(obs_file, archive, refl, io) ==
    IF refl.rejected \/ io # "ok"
    THEN [outcome |-> IF refl.rejected THEN "rejected" ELSE "failed",
          result |-> refl.result, obs_file |-> obs_file, archive |-> archive,
          writes |-> IF refl.rejected THEN <<>> ELSE << "reflections.log" >>]
    ELSE [outcome |-> "replaced", result |-> refl.result,
          archive |-> write_archive(archive,
                          ArchiveEntry(obs_file, refl.reflected, TRUE), io),
          obs_file |-> Cat(refl.reflected, Rep("\n", 1)),
          writes |-> CompactionWrites]

\* reflector.py reflect, lines 144-169, given what the engine call gave.
reflect(obs_file, archive, refl, io) ==
    LET content == obs_file IN
    IF refl.rejected
    THEN [outcome |-> "rejected", result |-> refl.result,
          obs_file |-> obs_file, archive |-> archive, writes |-> <<>>]
    ELSE [outcome |-> "replaced", result |-> refl.result,
          archive |-> write_archive(archive,
                          ArchiveEntry(content, refl.reflected, TRUE), io),
          obs_file |-> Cat(refl.reflected, Rep("\n", 1)),
          writes |-> CompactionWrites]

\* ---------------------------------------------------------- context loader

TRUNCATION_MARKER ==
    Cat(Str(<<"[",".",".","."," ","o","l","d","e","r"," ","o","b","s","e","r","v","a","t","i","o","n","s"," ">>),
        Str(<<"t","r","u","n","c","a","t","e","d"," ",".",".",".","]","\n","\n">>))

NoPayload ==
    [produced |-> FALSE, observations |-> Empty, approx_tokens |-> 0,
     current_task |-> None, suggested_response |-> None, continuity |-> FALSE]

\* A faulty variant of truncate_observations: the head is kept, not the tail.
truncate_head(observations) ==
    IF strlen(observations) > MAX_CONTEXT_CHARS
    THEN Cat(TRUNCATION_MARKER, Take(observations, MAX_CONTEXT_CHARS))
    ELSE observations

\* load-observations.py main, lines 46-54: the observations as injected.
truncate_observations(observations) ==
    IF strlen(observations) > MAX_CONTEXT_CHARS
    THEN Cat(TRUNCATION_MARKER, LastChars(observations, MAX_CONTEXT_CHARS))
    ELSE observations

\* load-observations.py main: the payload printed, NoPayload when it exits
\* without one.  The payload is the observations section, the task-continuity
\* section (present when either value is truthy) and the token estimate; the
\* fixed guidance text and the file's modification time are left out.
load_observations(obs_file, state_file_) ==
    LET state == load_state(state_file_)
        current_task == state.current_task
        suggested_response == state.suggested_response
    IN IF obs_file = NoFile \/ obs_file = Empty \/ strip(obs_file) = Empty
       THEN NoPayload
       ELSE [produced |-> TRUE,
             observations |-> truncate_observations(obs_file),
             approx_tokens |-> strlen(obs_file) \div 4,
             current_task |-> current_task,
             suggested_response |-> suggested_response,
             continuity |-> (current_task # None \/ suggested_response # None)]

\* ---------------------------------------------------------------- bounds

\* Turns the sessions complete, over both transcripts together.
MaxTurns == 2
\* Invocations of the observer and of the reflector that reach an engine call.
MaxRuns == 2

\* ---------------------------------------------------------------- inputs

\* The lines a session writes to its transcript: a user message whose
\* formatted line is one character short of MIN_NEW_CONTENT_CHARS, an assistant
\* message with a text block and a Bash tool call whose 300-character command
\* is cut to 200, an assistant message longer than the minimum by itself, and
\* an entry of a type the formatter drops; BlankLine and BadLine are skipped by
\* the reader.
UserLine == StrEntry("user", Rep("a", 1991))
AssistantLine ==
    ListEntry("assistant",
              << TextBlock(Str(<<" ", "o", "k", " ">>)),
                 ToolUseBlock(ToolNames.Bash, Rep("x", 300)) >>)
LongLine ==
    ListEntry("assistant",
              << TextBlock(Rep("b", 2500)),
                 ToolUseBlock(ToolNames.Read, Str(<<"/", "f">>)) >>)
SystemLine == StrEntry("system", Rep("s", 5))

\* The lines each session writes in its i-th turn.  The first session opens
\* with a short exchange; the second one's turns are long.
Script(path, i) ==
    IF path = "T1"
    THEN IF i % 2 = 1 THEN << UserLine >>
         ELSE << BlankLine, AssistantLine, SystemLine >>
    ELSE IF i % 2 = 1 THEN << UserLine, LongLine >>
         ELSE << BadLine, LongLine >>

\* The environment and the hook input of an invocation: OM_HOOK_ACTIVE and
\* stop_hook_active.
HookInputs ==
    {[hook_active |-> FALSE, stop_hook_active |-> FALSE],
     [hook_active |-> TRUE, stop_hook_active |-> FALSE],
     [hook_active |-> FALSE, stop_hook_active |-> TRUE]}

Tagged(open, text, close) == Cat(open, Cat(text, close))
Fence == Rep("BT", 3)
Newline == Rep("\n", 1)

\* What the engine prints for the observer.
OutAlice == Tagged(OBS_OPEN, Str(<<"A","l","i","c","e"," ","p","r","e","f","e","r","s"," ","d","a","r","k"," ","m","o","d","e",".">>), OBS_CLOSE)
OutSentinel == Cat(NO_NEW_OBSERVATIONS, Newline)
OutFenced ==
    Cat(Tagged(OBS_OPEN,
               Cat(Newline, Cat(Fence, Cat(Newline, Cat(Str(<<"f","a","c","t">>),
                   Cat(Newline, Cat(Fence, Newline)))))),
               OBS_CLOSE),
        Tagged(TASK_OPEN, Str(<<"f","i","x">>), TASK_CLOSE))
OutEmptyObs ==
    Cat(Tagged(OBS_OPEN, Rep(" ", 2), OBS_CLOSE),
        Cat(Tagged(TASK_OPEN, Str(<<"f","i","x">>), TASK_CLOSE),
            Tagged(RESP_OPEN, Str(<<"g","o">>), RESP_CLOSE)))
OutHuge == Tagged(OBS_OPEN, Rep("x", 60001), OBS_CLOSE)

\* The outcomes of the observer's engine call.
ObserverProcs ==
    {Proc("none", 0, out, Empty) :
        out \in {OutAlice, OutSentinel, OutFenced, OutEmptyObs, OutHuge, Empty}}
    \cup {Proc("none", 1, Empty, Rep("e", 9)),
          Proc("TimeoutExpired", 0, Empty, Empty),
          Proc("Exception", 0, Empty, Empty)}

\* What the engine prints for the reflector: a condensed text long enough for
\* both paths, one long enough for reflect only, one too short for both, one
\* wrapped in code fences, and one that is nothing but an opening fence line.
ReflectorOuts ==
    {Rep("c", 120), Rep("c", 60), Rep("c", 40),
     Cat(Fence, Cat(Newline, Cat(Rep("c", 120), Cat(Newline, Fence)))),
     Cat(Fence, Rep("w", 100))}

\* The outcomes of the reflector's engine call.
ReflectorProcs ==
    {Proc("none", 0, out, Empty) : out \in ReflectorOuts}
    \cup {Proc("TimeoutExpired", 0, Empty, Empty)}

\* The outcomes of the append to reflections.log.
ArchiveIO == {"ok", "IOError"}

\* The append is attempted only when the engine's result is accepted.
ArchiveOutcomes(refl) == IF refl.rejected THEN {"none"} ELSE ArchiveIO

\* What each hook can make of its engine call.
Extractions == {extraction(proc) : proc \in ObserverProcs}
AutoReflections == {auto_reflection(proc) : proc \in ReflectorProcs}
ExplicitReflections(hook_active) ==
    {explicit_reflection(hook_active, proc) : proc \in ReflectorProcs}

\* ----------------------------------------------------------------- state

VARIABLES
    transcripts,   \* path -> the lines of the transcript file, NoFile when missing
    turns,         \* path -> the turns its session has completed
    state_file,    \* memory/.observer-state.json
    obs_file,      \* memory/observations.md: its text, NoFile when missing
    archive,       \* memory/reflections.log: its entries
    last,          \* history: the most recent invocation of a hook
    runs,          \* history: the invocations that reached an engine call
    inflight,      \* process -> the observer invocation waiting for its engine
    presented,     \* history, kept where sessions alternate: path -> the lines
                   \* that were in the delta of an invocation that called the engine
    compacting     \* the reflector invocation waiting for its engine

vars ==
    << transcripts, turns, state_file, obs_file, archive, last, runs, inflight,
       presented, compacting >>

\* No user prompt was built.
NoPrompt == [existing |-> Empty, new_messages_text |-> Empty, len |-> 0]

\* The history record: the invocation's inputs, the return it took, what it
\* read and computed, and the files as they were before it.
NoRun ==
    [kind |-> "none", path |-> "", hook_active |-> FALSE, stop_hook_active |-> FALSE,
     force |-> FALSE, lines |-> 0, repeat |-> FALSE, deferred |-> FALSE,
     doubled |-> FALSE,
     stage |-> "", read |-> FALSE, entries |-> 0, max_line |-> -1,
     stored |-> DefaultState, last_line |-> 0,
     selected |-> <<>>, delta_chars |-> 0, engine_called |-> FALSE, result |-> None,
     observations_text |-> Empty, existing |-> Empty,
     appended |-> FALSE, store_before |-> NoFile, state_before |-> NoStateFile,
     archive_before |-> <<>>, updated_content |-> NoFile,
     reflector |-> "not_called", reflector_result |-> None, archive_io |-> "",
     writes |-> <<>>,
     formatted |-> <<>>, prompt |-> NoPrompt,
     payload |-> NoPayload]

\* The processes that can run the Stop hook at the same time (the hook is
\* asynchronous, and two sessions of one project share the memory directory).
Procs == {"p1", "p2"}

\* A process that runs no observer.
Idle == [busy |-> FALSE, path |-> "", sel |-> <<>>, run |-> NoRun, overtaken |-> FALSE]

\* No reflector is running.
NotCompacting == [busy |-> FALSE, force |-> FALSE, content |-> NoFile]

Init ==
    /\ inflight = [p \in Procs |-> Idle]
    /\ presented = [p \in Paths |-> {}]
    /\ compacting = NotCompacting
    /\ transcripts = [p \in Paths |-> NoFile]
    /\ turns = [p \in Paths |-> 0]
    /\ state_file = NoStateFile
    /\ obs_file = NoFile
    /\ archive = <<>>
    /\ last = NoRun
    /\ runs = 0

Lines(file) == IF file = NoFile THEN 0 ELSE Len(file)

\* A session completes a turn: its lines are appended to the transcript (the
\* first turn creates the file).
CompleteTurn(path) ==
    /\ turns' = [turns EXCEPT ![path] = @ + 1]
    /\ transcripts' =
           [transcripts EXCEPT
               ![path] = (IF @ = NoFile THEN <<>> ELSE @)
                         \o Script(path, turns[path] + 1)]
    /\ UNCHANGED << state_file, obs_file, archive, last, runs, inflight, presented, compacting >>

\* The turns the sessions complete, MaxTurns over both.
AppendTurn(path) ==
    /\ turns["T1"] + turns["T2"] < MaxTurns
    /\ CompleteTurn(path)

\* The history record of an observer invocation up to the engine call.  An
\* invocation that returns at one of the two flags has not read the
\* transcript path.  repeat: the invocation before it was of the observer on
\* the same transcript, no line added since; deferred: the invocation before
\* it stopped below the minimum at the same transcript and cursor.
ObserverRun(path, in, sel) ==
    LET flagged == sel.stage \in {"hook_active", "stop_hook_active"}
        read == ~flagged /\ sel.stage # "no_transcript"
        some == read /\ sel.all_messages # <<>>
        same == /\ ~flagged
                /\ last.kind = "observer"
                /\ ~last.hook_active /\ ~last.stop_hook_active
                /\ last.path = path
    IN [NoRun EXCEPT
           !.kind = "observer", !.path = IF flagged THEN "" ELSE path,
           !.hook_active = in.hook_active,
           !.stop_hook_active = in.stop_hook_active,
           !.lines = IF flagged THEN 0 ELSE Lines(transcripts[path]),
           !.repeat = same /\ last.lines = Lines(transcripts[path]),
           !.deferred = /\ same /\ some
                        /\ last.stage = "below_minimum"
                        /\ last.last_line = sel.last_line
                        /\ last.stored = sel.state,
           !.stage = sel.stage,
           !.read = read,
           !.entries = IF some THEN Len(sel.all_messages) ELSE 0,
           !.max_line = IF some THEN max_line_num(sel.all_messages) ELSE -1,
           !.stored = IF some THEN sel.state ELSE DefaultState,
           !.last_line = IF some THEN sel.last_line ELSE 0,
           !.selected = IF some
                        THEN [i \in 1..Len(sel.new_messages) |->
                                 sel.new_messages[i]._line_num]
                        ELSE <<>>,
           !.delta_chars = IF some /\ sel.new_messages # <<>>
                           THEN strlen(sel.new_text) ELSE 0,
           !.existing = IF sel.stage = "engine" THEN sel.existing ELSE Empty,
           !.store_before = obs_file, !.state_before = state_file,
           !.archive_before = archive, !.updated_content = obs_file]

\* observer.py main, lines 433-468: the invocation from the engine's answer
\* on: the append, the cursor saved, the reflector it may run.
ObserverFinish(path, sel, run) ==
    \E ext \in Extractions :
    \E done \in {observer_commit(path, sel, ext, obs_file)} :
    \E called \in {[run EXCEPT
                       !.engine_called = TRUE,
                       !.result = ext.result,
                       !.observations_text = ext.observations_text,
                       !.appended = done.appended,
                       !.updated_content = done.obs_file]} :
      /\ state_file' = done.state_file
      /\ IF done.appended /\ reflection_needed(done.obs_file)
         THEN \E refl \in AutoReflections :
              \E io \in ArchiveOutcomes(refl) :
              \E rr \in {run_reflector(done.obs_file, archive, refl, io)} :
                /\ obs_file' = rr.obs_file
                /\ archive' = rr.archive
                /\ last' = [called EXCEPT
                               !.reflector = rr.outcome,
                               !.reflector_result = rr.result,
                               !.writes = rr.writes,
                               !.archive_io = IF rr.outcome = "replaced"
                                              THEN io ELSE ""]
         ELSE /\ obs_file' = done.obs_file
              /\ archive' = archive
              /\ last' = called

\* observer.py main: one invocation of the Stop hook, from the guards to the
\* reflector it may run.
Observer(path, in) ==
    /\ UNCHANGED << transcripts, turns, inflight, presented, compacting >>
    /\ \E sel \in {observer_select(path, in.hook_active, in.stop_hook_active,
                                   [transcripts |-> transcripts,
                                    state_file |-> state_file,
                                    obs_file |-> obs_file])} :
       \E run \in {ObserverRun(path, in, sel)} :
         IF sel.stage # "engine"
         THEN /\ last' = run
              /\ UNCHANGED << state_file, obs_file, archive, runs >>
         ELSE /\ runs < MaxRuns
              /\ runs' = runs + 1
              /\ ObserverFinish(path, sel, run)

\* The history record of a reflector invocation.
ReflectRun(force, hook_active, stage) ==
    [NoRun EXCEPT
        !.kind = "reflect", !.force = force, !.hook_active = hook_active,
        !.stage = stage,
        !.store_before = obs_file, !.state_before = state_file,
        !.archive_before = archive, !.updated_content = obs_file]

\* reflector.py: one invocation, of the PreCompact hook (main, force FALSE) or
\* of the standalone --force entry of the /reflect skill (force TRUE).
Reflector(force, hook_active) ==
    /\ UNCHANGED << transcripts, turns, state_file, inflight, presented, compacting >>
    /\ \E stage \in {IF ~force /\ hook_active THEN "hook_active"
                     ELSE reflect_guard(obs_file, force)} :
         IF stage # ""
         THEN /\ last' = ReflectRun(force, hook_active, stage)
              /\ UNCHANGED << obs_file, archive, runs >>
         ELSE /\ runs < MaxRuns
              /\ runs' = runs + 1
              /\ \E refl \in ExplicitReflections(hook_active) :
                 \E io \in ArchiveOutcomes(refl) :
                 \E rr \in {reflect(obs_file, archive, refl, io)} :
                   /\ obs_file' = rr.obs_file
                   /\ archive' = rr.archive
                   /\ last' = [ReflectRun(force, hook_active, "engine") EXCEPT
                                  !.engine_called = ~hook_active,
                                  !.reflector = rr.outcome,
                                  !.reflector_result = rr.result,
                                  !.writes = rr.writes,
                                  !.archive_io = IF rr.outcome = "replaced"
                                                 THEN io ELSE ""]

\* A faulty variant of Load: the task continuity is dropped from the cursor
\* state once it has been injected.
Load_clearing ==
    /\ last' = [NoRun EXCEPT
                   !.kind = "load", !.repeat = last.kind = "load",
                   !.store_before = obs_file, !.state_before = state_file,
                   !.archive_before = archive, !.updated_content = obs_file,
                   !.payload = load_observations(obs_file, state_file)]
    /\ state_file' = [state_file EXCEPT !.json.current_task = None,
                                        !.json.suggested_response = None]
    /\ UNCHANGED << transcripts, turns, obs_file, archive, runs, inflight, presented, compacting >>

\* load-observations.py main: one invocation of the SessionStart hook.
\* repeat: the invocation before it was of the loader too.
Load ==
    /\ last' = [NoRun EXCEPT
                   !.kind = "load", !.repeat = last.kind = "load",
                   !.store_before = obs_file, !.state_before = state_file,
                   !.archive_before = archive, !.updated_content = obs_file,
                   !.payload = load_observations(obs_file, state_file)]
    /\ UNCHANGED << transcripts, turns, state_file, obs_file, archive, runs, inflight, presented, compacting >>

Next ==
    \/ \E path \in Paths : AppendTurn(path)
    \/ \E path \in Paths, in \in HookInputs : Observer(path, in)
    \/ \E force \in BOOLEAN, hook_active \in BOOLEAN : Reflector(force, hook_active)
    \/ Load

\* The selections of two invocations have an entry in common.
overlapping(f, g) ==
    /\ f.path = g.path
    /\ f.sel.state = g.sel.state
    /\ \E i \in 1..Len(f.run.selected), j \in 1..Len(g.run.selected) :
          f.run.selected[i] = g.run.selected[j]

\* observer.py main, lines 367-431, in a process of its own: the invocation
\* up to the engine call, where it blocks (neither flag is set).  One that
\* returns before the engine call has written nothing and is over at once.
\* (The processes are alike: the second is taken while the first is busy.)
Begin(p, path) ==
    /\ ~inflight[p].busy
    /\ p = "p1" \/ inflight["p1"].busy
    /\ \E sel \in {observer_select(path, FALSE, FALSE,
                                   [transcripts |-> transcripts,
                                    state_file |-> state_file,
                                    obs_file |-> obs_file])} :
       \E run \in {ObserverRun(path, [hook_active |-> FALSE,
                                      stop_hook_active |-> FALSE], sel)} :
         IF sel.stage # "engine"
         THEN UNCHANGED vars
         ELSE /\ runs < MaxRuns
              /\ runs' = runs + 1
              /\ inflight' = [inflight EXCEPT
                                 ![p] = [busy |-> TRUE, path |-> path, sel |-> sel,
                                         run |-> run, overtaken |-> FALSE]]
              /\ UNCHANGED << transcripts, turns, state_file, obs_file, archive,
                              last, presented, compacting >>

\* observer.py main, lines 433-468, in a process of its own: the engine call
\* returns and the invocation writes, whatever other invocations have written
\* since it read the cursor state and the store.  doubled: one that had
\* loaded the same cursor state and selected some of the same entries has
\* appended in between.
Finish(p) ==
    /\ inflight[p].busy
    /\ ObserverFinish(inflight[p].path, inflight[p].sel,
                      [inflight[p].run EXCEPT
                          !.doubled = inflight[p].overtaken,
                          !.store_before = obs_file, !.state_before = state_file,
                          !.archive_before = archive])
    /\ inflight' =
          [q \in Procs |->
              IF q = p THEN Idle
              ELSE IF inflight[q].busy /\ last'.appended
                      /\ overlapping(inflight[p], inflight[q])
              THEN [inflight[q] EXCEPT !.overtaken = TRUE]
              ELSE inflight[q]]
    /\ UNCHANGED << transcripts, turns, runs, presented, compacting >>

ConcNext ==
    \/ \E path \in Paths : AppendTurn(path)
    \/ \E p \in Procs, path \in Paths : Begin(p, path)
    \/ \E p \in Procs : Finish(p)

\* Stop hooks whose invocations can overlap in time: no lock surrounds the
\* sequence from the read of the cursor state to its save.
ConcSpec == Init /\ [][ConcNext]_vars

\* The hook input and environment with neither flag set.
Unflagged == [hook_active |-> FALSE, stop_hook_active |-> FALSE]

\* .observer-state.json becomes unreadable as JSON (a write cut short, a
\* damaged disk): load_state's json.loads raises JSONDecodeError.  What the
\* file held is kept in json, which load_state does not look at then.
DamageState ==
    /\ state_file.exists
    /\ ~state_file.corrupt
    /\ state_file' = [state_file EXCEPT !.corrupt = TRUE]
    /\ UNCHANGED << transcripts, turns, obs_file, archive, last, runs, inflight, presented, compacting >>

FaultNext ==
    \/ AppendTurn("T1")
    \/ Observer("T1", Unflagged)
    \/ DamageState

\* The Stop hook of one session, one invocation at a time, with a cursor
\* state file that can be damaged between invocations.
FaultSpec == Init /\ [][FaultNext]_vars

\* The engine-reaching invocations the sessions of a project get when they
\* take turns: one more than MaxRuns, for a session to come back after the
\* other.
MaxPasses == MaxRuns + 1
\* The turns they complete meanwhile: one more than MaxTurns, for the session
\* whose first turn is too short for an engine call to get one with the other.
MaxProjectTurns == MaxTurns + 1

\* A session of the project completes a turn.
ProjectTurn(path) ==
    /\ turns["T1"] + turns["T2"] < MaxProjectTurns
    /\ CompleteTurn(path)

\* observer.py main: one invocation of the Stop hook with neither flag set,
\* as Observer, with the lines of its delta, their formatted lines and the
\* user prompt recorded when it calls the engine.  One that returns before the
\* engine call has written nothing.
Extract(path) ==
    /\ UNCHANGED << transcripts, turns, inflight, compacting >>
    /\ \E sel \in {observer_select(path, FALSE, FALSE,
                                   [transcripts |-> transcripts,
                                    state_file |-> state_file,
                                    obs_file |-> obs_file])} :
       \E run \in {ObserverRun(path, Unflagged, sel)} :
         IF sel.stage # "engine"
         THEN UNCHANGED << state_file, obs_file, archive, last, runs, presented >>
         ELSE /\ runs < MaxPasses
              /\ runs' = runs + 1
              /\ ObserverFinish(path, sel,
                     [run EXCEPT
                         !.formatted =
                             [i \in 1..Len(sel.new_messages) |->
                                 extract_text_content(sel.new_messages[i].entry)],
                         !.prompt = sel.user_prompt])
              /\ presented' =
                     [presented EXCEPT
                         ![path] = @ \cup {run.selected[i] :
                                              i \in 1..Len(run.selected)}]

ProjectNext ==
    \/ \E path \in Paths : ProjectTurn(path)
    \/ \E path \in Paths : Extract(path)

\* The Stop hooks of the sessions of one project, one invocation at a time:
\* the sessions share the memory directory and its one .observer-state.json.
ProjectSpec == Init /\ [][ProjectNext]_vars

\* What a session that pastes whole files into the conversation writes in a
\* turn: entries of 30000 characters each, two in its odd turns, one in its
\* even turns.
PasteUser == StrEntry("user", Rep("u", 30000))
PasteAssistant == ListEntry("assistant", << TextBlock(Rep("v", 30000)) >>)
PasteHuman == StrEntry("human", Rep("w", 30000))

PasteScript(i) ==
    IF i % 2 = 1 THEN << PasteUser, PasteAssistant >> ELSE << PasteHuman >>

\* The session completes a turn of pastes.
PasteTurn(path) ==
    /\ turns["T1"] + turns["T2"] < MaxTurns
    /\ turns' = [turns EXCEPT ![path] = @ + 1]
    /\ transcripts' =
           [transcripts EXCEPT
               ![path] = (IF @ = NoFile THEN <<>> ELSE @)
                         \o PasteScript(turns[path] + 1)]
    /\ UNCHANGED << state_file, obs_file, archive, last, runs, inflight, presented, compacting >>

PasteNext ==
    \/ AppendTurn("T1")
    \/ PasteTurn("T1")
    \/ Extract("T1")

\* The Stop hook of one session whose turns can be long enough for the user
\* prompt to pass MAX_PROMPT_CHARS, one invocation at a time.
PasteSpec == Init /\ [][PasteNext]_vars

\* reflector.py reflect, lines 117-144, in a process of its own: the
\* invocation (of the PreCompact hook, or with --force) reads the store and
\* blocks in its engine call.  One that returns before the engine call has
\* written nothing.
CompactBegin(force) ==
    /\ ~compacting.busy
    /\ IF reflect_guard(obs_file, force) # ""
       THEN UNCHANGED vars
       ELSE /\ runs < MaxPasses
            /\ runs' = runs + 1
            /\ compacting' = [busy |-> TRUE, force |-> force, content |-> obs_file]
            /\ UNCHANGED << transcripts, turns, state_file, obs_file, archive,
                            last, inflight, presented >>

\* reflector.py reflect, lines 144-171, in a process of its own: the engine
\* call returns; unless the result is refused, the content read before the
\* call is archived and the store is replaced, whatever has been appended to
\* it since.
CompactFinish ==
    /\ compacting.busy
    /\ \E refl \in ExplicitReflections(FALSE) :
       \E io \in ArchiveOutcomes(refl) :
       \E rr \in {reflect(compacting.content, archive, refl, io)} :
         /\ obs_file' = IF rr.outcome = "replaced" THEN rr.obs_file ELSE obs_file
         /\ archive' = rr.archive
         /\ last' = [ReflectRun(compacting.force, FALSE, "engine") EXCEPT
                        !.engine_called = TRUE,
                        !.reflector = rr.outcome,
                        !.reflector_result = rr.result,
                        !.writes = rr.writes,
                        !.archive_io = IF rr.outcome = "replaced" THEN io ELSE ""]
    /\ compacting' = NotCompacting
    /\ UNCHANGED << transcripts, turns, state_file, runs, inflight, presented >>

OverlapNext ==
    \/ AppendTurn("T2")
    \/ Extract("T2")
    \/ \E force \in BOOLEAN : CompactBegin(force)
    \/ CompactFinish

\* The Stop hook of a session, one invocation at a time, and a reflector
\* whose invocation can overlap them: no lock surrounds the sequence from
\* the reflector's read of the store to its replacement.
OverlapSpec == Init /\ [][OverlapNext]_vars

\* The hooks as Claude Code runs them, one invocation at a time.  (The
\* standalone --force entry of observer.py, lines 483-536, a manual
\* re-extraction of a whole transcript outside the hooks, is not part of it.)
Spec == Init /\ [][Next]_vars

\* ---------------------------------------------------------------- claims

\* The persisted cursor, and the store an observer invocation leaves before
\* the reflector it may run.
Cursor == state_file.json.last_observed_line
ObserverRan == last.kind = "observer"
Called == ObserverRan /\ last.engine_called
Prior(file) == IF file = NoFile THEN Empty ELSE file

\* C1 (monotonic cursor): over sequential observer invocations on one
\* transcript that only grows, the persisted last_observed_line never
\* decreases: no step takes a saved cursor to a smaller one for the same
\* transcript path.
C1_MonotonicCursor ==
    [][(/\ state_file.exists
        /\ state_file'.exists
        /\ state_file'.json.transcript_path = state_file.json.transcript_path)
       => state_file'.json.last_observed_line >= state_file.json.last_observed_line]_vars

\* A second save for the same transcript, after it has grown, moved the cursor up.
C1_Witness ==
    /\ Called
    /\ last.state_before.exists
    /\ last.state_before.json.transcript_path = last.path
    /\ state_file.json.transcript_path = last.path
    /\ Cursor > last.state_before.json.last_observed_line

\* C2 as stated: after any observer invocation that read a non-empty
\* transcript the persisted cursor is the maximum line index read plus one.
C2_AsStated ==
    (ObserverRan /\ last.read /\ last.entries > 0)
    => (state_file.exists /\ Cursor = last.max_line + 1)

\* C2 (cursor after an invocation): an observer invocation that read a
\* non-empty transcript and reached the engine call leaves the persisted
\* cursor at the maximum line index read plus one, for this transcript; one
\* that read it and returned before the engine call (nothing at or after the
\* cursor, or a delta below the minimum) leaves the cursor state as it was.
C2_CursorAfterInvocation ==
    (ObserverRan /\ last.read /\ last.entries > 0)
    => IF last.engine_called
       THEN /\ state_file.exists
            /\ state_file.json.transcript_path = last.path
            /\ Cursor = last.max_line + 1
       ELSE state_file = last.state_before

\* The transcript holds a line the reader skipped, and the cursor is past its
\* last entry.
C2_Witness ==
    /\ Called
    /\ last.entries < last.lines
    /\ last.max_line = last.lines - 1
    /\ Cursor = last.lines

\* C3 (idempotent repeat): an observer invocation that follows another on the
\* same transcript, with no line added in between, leaves the observations
\* file and the reflection log as they were, whatever the first one did.
C3_IdempotentRepeat ==
    (ObserverRan /\ last.repeat)
    => (obs_file = last.store_before /\ archive = last.archive_before)

\* The repeat of an invocation that had appended found nothing new.
C3_Witness ==
    /\ ObserverRan
    /\ last.repeat
    /\ last.stage = "no_new_messages"
    /\ last.store_before # NoFile
    /\ last.stored.last_observed_line = last.max_line + 1

\* C4 (delta minimum gate): when the formatted delta of the entries at or
\* after the cursor is shorter than MIN_NEW_CONTENT_CHARS the invocation calls
\* no engine and changes neither the cursor state nor the store; when it is at
\* least the minimum the engine is called and the cursor moves past the line
\* the selection started from.
C4_DeltaMinimumGate ==
    (ObserverRan /\ last.selected # <<>>)
    => IF last.delta_chars < MIN_NEW_CONTENT_CHARS
       THEN /\ ~last.engine_called
            /\ state_file = last.state_before
            /\ obs_file = last.store_before
       ELSE /\ last.engine_called
            /\ state_file.exists
            /\ Cursor > last.last_line

\* An invocation stopped one character below the minimum; after the transcript
\* grew, the next one, from the same cursor, called the engine.
C4_Witness ==
    /\ Called
    /\ last.deferred
    /\ last.delta_chars >= MIN_NEW_CONTENT_CHARS
    /\ Cursor > last.last_line

\* C5 (rollover): when the transcript path in the cursor state is not the
\* path of the transcript processed, the selection starts from line 0 and
\* takes every entry, whatever the stored last_observed_line.
C5_RolloverSelectsFromStart ==
    (ObserverRan /\ last.entries > 0 /\ last.stored.transcript_path # last.path)
    => (last.last_line = 0 /\ Len(last.selected) = last.entries)

\* The state held a cursor above 0 for the other transcript.
C5_Witness ==
    /\ ObserverRan
    /\ last.entries > 0
    /\ last.stored.transcript_path \notin {"", last.path}
    /\ last.stored.last_observed_line > 0
    /\ last.selected[1] = 0

\* The engine returned nothing, or less than min characters.
TooShort(result, min) == result = None \/ strlen(strip(result)) < min

\* C6 (compaction safety): in run_reflector and in reflect, when the engine
\* returns nothing or a result shorter than the path's minimum, the
\* observations file is what it was before the call and the reflection log
\* has no new entry.
C6_RejectedCompaction ==
    /\ (/\ ObserverRan
        /\ last.reflector \in {"rejected", "replaced"}
        /\ TooShort(last.reflector_result, MIN_RESULT_CHARS_AUTO))
       => (obs_file = last.updated_content /\ archive = last.archive_before)
    /\ (/\ last.kind = "reflect"
        /\ last.stage = "engine"
        /\ TooShort(last.reflector_result, MIN_RESULT_CHARS_EXPLICIT))
       => (obs_file = last.store_before /\ archive = last.archive_before)

\* reflect refused a short result for a store that run_reflector, refusing
\* its own, had left above the reflection threshold.
C6_Witness ==
    /\ last.kind = "reflect"
    /\ last.stage = "engine"
    /\ last.reflector_result # None
    /\ TooShort(last.reflector_result, MIN_RESULT_CHARS_EXPLICIT)
    /\ strlen(last.store_before) >= REFLECTION_THRESHOLD_CHARS
    /\ obs_file = last.store_before

\* The store a compaction replaced.
Compacted == IF ObserverRan THEN last.updated_content ELSE last.store_before

\* The reflection log gained exactly one entry, holding content.
GainedEntry(content) ==
    /\ Len(archive) = Len(last.archive_before) + 1
    /\ SubSeq(archive, 1, Len(last.archive_before)) = last.archive_before
    /\ archive[Len(archive)].content = content

Section == parse_observer_output(last.result).observations
Blank(file) == file = NoFile \/ strip(file) = Empty
Appended(text) ==
    Cat(Prior(last.store_before),
        Cat(IF Blank(last.store_before) THEN Empty ELSE Str(<<"\n", "\n">>),
            Cat(text, Rep("\n", 1))))

\* C8 as stated: when the observations section is a non-empty text O, an
\* absent or empty store becomes O and a newline, a non-empty store its prior
\* content, a blank-line separator, O and a newline, and the cursor becomes
\* the maximum read line index plus one.
C8_AsStated ==
    (Called /\ ~nothing_new(last.result) /\ Section # Empty)
    => /\ last.updated_content =
              Cat(Prior(last.store_before),
                  Cat(IF Prior(last.store_before) = Empty THEN Empty
                      ELSE Str(<<"\n", "\n">>),
                      Cat(Section, Rep("\n", 1))))
       /\ Cursor = last.max_line + 1

\* C8 (append): when the observations section of the engine's output, with
\* a wrapping code fence removed, is a non-empty text O, a store that is
\* absent or holds only whitespace becomes its prior content, O and a
\* newline, any other store its prior content, a blank-line separator, O and
\* a newline; the cursor becomes the maximum read line index plus one.
C8_Append ==
    (Called /\ ~nothing_new(last.result) /\ clean_observations(Section) # Empty)
    => /\ last.updated_content = Appended(clean_observations(Section))
       /\ Cursor = last.max_line + 1

\* A fenced observations section was appended, without its fence, after the
\* separator, to a store that held observations.
C8_Witness ==
    /\ Called
    /\ last.appended
    /\ ~Blank(last.store_before)
    /\ clean_observations(Section) # Section
    /\ last.updated_content = Appended(clean_observations(Section))

\* C9 (engine failure and sentinel): when the engine call fails, times out,
\* raises, prints nothing or prints NO_NEW_OBSERVATIONS, the observations file
\* is left as it was and the cursor is saved as the maximum line index over
\* all entries read, plus one.
C9_NothingNew ==
    (Called /\ (last.result = None \/ last.result = NO_NEW_OBSERVATIONS))
    => /\ obs_file = last.store_before
       /\ state_file.exists
       /\ Cursor = last.max_line + 1

\* The engine gave nothing for a delta that was a part of the entries read.
C9_Witness ==
    /\ Called
    /\ last.result = None
    /\ Len(last.selected) < last.entries
    /\ last.store_before # NoFile
    /\ Cursor = last.max_line + 1

\* C10 (truncation keeps the tail): for a store longer than
\* MAX_CONTEXT_CHARS the observations section of the loader's payload is the
\* truncation marker followed by the last MAX_CONTEXT_CHARS characters of the
\* store; for a shorter store, when a payload is printed, it is the store.
C10_TruncationKeepsTail ==
    (last.kind = "load" /\ last.store_before # NoFile)
    => IF strlen(last.store_before) > MAX_CONTEXT_CHARS
       THEN /\ last.payload.produced
            /\ last.payload.observations =
                   Cat(TRUNCATION_MARKER,
                       Drop(last.store_before,
                            strlen(last.store_before) - MAX_CONTEXT_CHARS))
            /\ strlen(last.payload.observations) =
                   strlen(TRUNCATION_MARKER) + MAX_CONTEXT_CHARS
       ELSE last.payload.produced => last.payload.observations = last.store_before

\* The loader cut a store that two appends had taken past the limit.
C10_Witness ==
    /\ last.kind = "load"
    /\ strlen(last.store_before) > MAX_CONTEXT_CHARS + 2
    /\ last.payload.produced
    /\ strlen(last.payload.observations) < strlen(last.store_before)

\* The files an invocation can write are as they were before it.
Untouched ==
    /\ obs_file = last.store_before
    /\ state_file = last.state_before
    /\ archive = last.archive_before

\* C11 (reentrancy guard): an observer or reflector invocation that starts
\* with OM_HOOK_ACTIVE set makes no engine call and leaves the observations
\* file, the cursor state and the reflection log unchanged.
C11_ReentrancyGuard ==
    (last.kind \in {"observer", "reflect"} /\ last.hook_active)
    => (~last.engine_called /\ last.reflector \in {"not_called", "rejected"}
        /\ Untouched)

\* The PreCompact hook returned at the flag with a store it would otherwise
\* have sent to the engine.
C11_Witness ==
    /\ last.kind = "reflect"
    /\ ~last.force
    /\ last.hook_active
    /\ last.stage = "hook_active"
    /\ last.store_before # NoFile
    /\ strlen(last.store_before) >= MIN_REFLECT_CHARS
    /\ Untouched

\* C12 (read-only loader): a step of the context loader changes neither the
\* observations file nor the cursor state nor the reflection log, and a
\* loader invocation that directly follows another prints the same payload.
C12_LoaderReadOnly ==
    [][(last'.kind = "load")
       => /\ obs_file' = obs_file
          /\ state_file' = state_file
          /\ archive' = archive
          /\ (last.kind = "load" => last'.payload = last.payload)]_vars

\* The loader ran twice in a row on a store with task continuity.
C12_Witness ==
    /\ last.kind = "load"
    /\ last.repeat
    /\ last.payload.produced
    /\ last.payload.continuity
    /\ Untouched

\* C13 (monotonic cursor under overlap): within one transcript, the persisted
\* cursor never goes down, in any interleaving of observer invocations of
\* one project, those that overlap in time and read the transcript at
\* different lengths included.
C13_CursorOnlyIncreases ==
    [][(/\ state_file.exists
        /\ state_file'.exists
        /\ state_file'.json.transcript_path = state_file.json.transcript_path)
       => state_file'.json.last_observed_line >= state_file.json.last_observed_line]_vars

\* What an invocation appends: its observations after the separator it chose
\* from the store it had read before the engine call.
Block ==
    Cat(IF last.existing # Empty THEN Str(<<"\n", "\n">>) ELSE Empty,
        Cat(last.observations_text, Rep("\n", 1)))

\* C14 (double extraction): no lock or second look at the cursor keeps an
\* invocation from appending: one that has observations to record, after
\* another that had loaded the same cursor state and selected some of the
\* same entries has appended its own, appends them behind the other's.
C14_DoubleExtraction ==
    (ObserverRan /\ last.doubled /\ last.observations_text # Empty)
    => /\ last.appended
       /\ last.store_before # NoFile
       /\ last.updated_content = Cat(last.store_before, Block)

\* Two invocations loaded cursor 0, selected the same entries, and the store
\* holds the same observation twice.
C14_Witness ==
    /\ ObserverRan
    /\ last.doubled
    /\ last.appended
    /\ last.stored.last_observed_line = 0
    /\ last.store_before = Cat(last.observations_text, Rep("\n", 1))
    /\ obs_file = Cat(last.store_before, last.store_before)

\* C15 (compaction trigger): an observer invocation runs the reflector exactly
\* when it has appended and the store is then at least
\* REFLECTION_THRESHOLD_CHARS long; the reflector it runs goes on to its engine
\* call; an invocation that appends nothing runs none.
C15_CompactionTrigger ==
    ObserverRan
    => /\ (last.reflector # "not_called")
          <=> (/\ last.appended
               /\ strlen(last.updated_content) >= REFLECTION_THRESHOLD_CHARS)
       /\ last.reflector \in {"not_called", "rejected", "replaced"}

\* An append took the store past the threshold and the reflector was run; its
\* result was refused, so the store is the one it was run for.
C15_Witness ==
    /\ ObserverRan
    /\ last.appended
    /\ last.reflector = "rejected"
    /\ strlen(last.store_before) < REFLECTION_THRESHOLD_CHARS
    /\ strlen(obs_file) >= REFLECTION_THRESHOLD_CHARS

\* a is the beginning of b.
IsPrefix(a, b) == strlen(a) <= strlen(b) /\ Take(b, strlen(a)) = a

\* The text a compaction writes for the engine result it accepted, and the
\* least length it accepts.
Condensed(run) ==
    IF run.kind = "observer" THEN strip(run.reflector_result)
    ELSE clean_reflected(run.reflector_result)
MinResult(run) ==
    IF run.kind = "observer" THEN MIN_RESULT_CHARS_AUTO ELSE MIN_RESULT_CHARS_EXPLICIT

\* C16 (append or compaction): a step that is not a compaction leaves the
\* store as it was or, in an observer invocation that appends, with its
\* previous content at the beginning of the new; a step that replaces the
\* content is a compaction whose engine result passed the length check, and
\* the store is then that result.
C16_AppendOrCompaction ==
    [][IF last'.reflector = "replaced"
       THEN /\ ~TooShort(last'.reflector_result, MinResult(last'))
            /\ obs_file' = Cat(Condensed(last'), Rep("\n", 1))
       ELSE \/ obs_file' = obs_file
            \/ /\ last'.kind = "observer"
               /\ last'.appended
               /\ obs_file' # NoFile
               /\ strlen(obs_file') > strlen(Prior(obs_file))
               /\ IsPrefix(Prior(obs_file), obs_file')]_vars

\* An append behind a store that a compaction had written.
C16_Witness ==
    /\ ObserverRan
    /\ last.appended
    /\ last.reflector = "not_called"
    /\ archive # <<>>
    /\ ~Blank(last.store_before)
    /\ IsPrefix(last.store_before, obs_file)
    /\ obs_file # last.store_before

\* C17 (append-only log): over every step of the observer, the reflector and
\* the loader, the reflection log as it was is the beginning of the log as
\* it is: entries are added at the end, none is changed or removed.
C17_ArchiveAppendOnly ==
    [][/\ Len(archive') >= Len(archive)
       /\ SubSeq(archive', 1, Len(archive)) = archive]_vars

\* A second compaction added its entry behind the first one's.
C17_Witness ==
    /\ last.reflector = "replaced"
    /\ Len(archive) = 2
    /\ last.archive_before = << archive[1] >>
    /\ archive[2].content # archive[1].content

\* What the engine's output gives for the task and the response.
Parsed == parse_observer_output(last.result)

\* C18 (empty observations): when the engine's output is not the sentinel and
\* its observations text is empty after parsing and fence stripping, nothing
\* is appended, the cursor is saved as the maximum read line index plus one,
\* and the parsed current_task and suggested_response are saved with it.
C18_EmptyObservations ==
    (Called /\ ~nothing_new(last.result) /\ clean_observations(Section) = Empty)
    => /\ ~last.appended
       /\ obs_file = last.store_before
       /\ archive = last.archive_before
       /\ state_file.exists
       /\ Cursor = last.max_line + 1
       /\ state_file.json.current_task = Parsed.current_task
       /\ state_file.json.suggested_response = Parsed.suggested_response

\* The output had a blank observations section, a task and a response.
C18_Witness ==
    /\ Called
    /\ ~nothing_new(last.result)
    /\ clean_observations(Section) = Empty
    /\ Parsed.current_task # None
    /\ Parsed.suggested_response # None
    /\ state_file.json.current_task = Parsed.current_task
    /\ obs_file = last.store_before

\* A compaction got an engine result that passes its length check.
Validated ==
    \/ /\ ObserverRan
       /\ last.reflector # "not_called"
       /\ ~TooShort(last.reflector_result, MIN_RESULT_CHARS_AUTO)
    \/ /\ last.kind = "reflect"
       /\ last.stage = "engine"
       /\ ~TooShort(last.reflector_result, MIN_RESULT_CHARS_EXPLICIT)

\* C19 (log errors are swallowed): a compaction whose engine result passed
\* the length check replaces the store with the condensed result whether the
\* append to the reflection log succeeds or raises IOError; it opens the log
\* before it writes the store; when the append fails the log is unchanged.
C19_ArchiveErrorSwallowed ==
    Validated
    => /\ obs_file = Cat(Condensed(last), Rep("\n", 1))
       /\ last.writes = << "reflections.log", "observations.md" >>
       /\ last.archive_io \in ArchiveIO
       /\ (last.archive_io = "IOError" => archive = last.archive_before)

\* reflect could not open the log and replaced the store.
C19_Witness ==
    /\ last.kind = "reflect"
    /\ Validated
    /\ last.archive_io = "IOError"
    /\ archive = last.archive_before
    /\ obs_file # last.store_before
    /\ obs_file = Cat(Condensed(last), Rep("\n", 1))

\* A cursor state file that is missing or not JSON.
Unusable(file) == ~file.exists \/ file.corrupt

C21_EachEntryOnce ==
    [][runs' = runs + 1
       => \A i \in 1..Len(last'.selected) :
             last'.selected[i] \notin presented[last'.path]]_vars

\* The formatted lines of the delta that are not empty, the delta's text, and
\* whether the user prompt built from the whole of it is over the cap.
Formatted == SelectSeq(last.formatted, LAMBDA line : line # Empty)
Delta == join(Str(<<"\n", "\n">>), Formatted)
OverCap ==
    (IF last.existing # Empty THEN 116 + strlen(last.existing) ELSE 0)
    + 281 + strlen(Delta) > MAX_PROMPT_CHARS

\* The formatted line is in the new-messages part of the user prompt.
Presented(line) == find(last.prompt.new_messages_text, line) # -1

\* C22 as stated: every entry the cursor is advanced past, whose formatted
\* line is not empty, has that line in the user prompt of the invocation's
\* engine call, also when the prompt was over the cap and was rebuilt.
C22_AsStated ==
    (ObserverRan /\ last.engine_called)
    => \A i \in 1..Len(last.formatted) :
          (last.formatted[i] # Empty /\ Cursor > last.selected[i])
          => Presented(last.formatted[i])

\* C22 (no entry skipped unpresented): an invocation that calls the engine
\* advances the cursor past every entry of its delta.  While the prompt built
\* from the whole delta is within the cap, the prompt holds the whole delta,
\* so every non-empty formatted line of it; when it is over the cap, the
\* prompt holds the previous observations uncut and the last
\* TRUNCATED_TEXT_CHARS characters of the delta, nothing of what precedes
\* them.
C22_PresentedWithinCap ==
    (ObserverRan /\ last.engine_called)
    => /\ \A i \in 1..Len(last.selected) : Cursor > last.selected[i]
       /\ last.prompt.existing = last.existing
       /\ ~OverCap
            => /\ last.prompt.new_messages_text = Delta
               /\ \A i \in 1..Len(Formatted) : Presented(Formatted[i])
       /\ OverCap
            => last.prompt.new_messages_text = LastChars(Delta, TRUNCATED_TEXT_CHARS)

\* The prompt was over the cap and was rebuilt from the last 50000 characters
\* of a longer delta: the first entry's line is not in it, the last entry's
\* is, and the cursor is past both.
C22_Witness ==
    /\ ObserverRan
    /\ last.engine_called
    /\ OverCap
    /\ strlen(Delta) > TRUNCATED_TEXT_CHARS
    /\ strlen(last.prompt.new_messages_text) = TRUNCATED_TEXT_CHARS
    /\ Len(Formatted) >= 2
    /\ ~Presented(Formatted[1])
    /\ Presented(Formatted[Len(Formatted)])
    /\ Cursor = last.max_line + 1
    /\ Cursor > last.selected[1]

\* The text occurs in the store, or in the pre-compaction content of an entry
\* of the log.
Kept(text, store, log) ==
    \/ store # NoFile /\ find(store, text) # -1
    \/ \E k \in 1..Len(log) : find(log[k].content, text) # -1

\* An append that a compaction in flight has not seen: the observer's last
\* invocation appended to a store that began with what the reflector read.
AppendedSinceRead ==
    /\ compacting.busy
    /\ ObserverRan
    /\ last.appended
    /\ last.store_before # NoFile
    /\ IsPrefix(compacting.content, last.store_before)

\* C23 (append overlapping a compaction): when a compaction that read the
\* store before an append finishes after it, the observations text that was
\* appended is in the store, or in the pre-compaction content of an entry of
\* the log.
C23_NoAppendLost ==
    [][(AppendedSinceRead /\ ~compacting'.busy)
       => Kept(last.observations_text, obs_file', archive')]_vars

\* C24 (no degenerate replacement): after a compaction that replaces the
\* store, by run_reflector or by reflect, the store's content has at least the
\* path's minimal length, 100 characters and 50; it is never empty or
\* shorter.
C24_MinimalLength ==
    last.reflector = "replaced"
    => /\ obs_file # NoFile
       /\ strlen(strip(obs_file)) >= MinResult(last)

\* A value as save_state writes it: kept when truthy, left out otherwise.
Saved(value) == IF value \in {None, Empty} THEN None ELSE value

\* The cursor state file an invocation leaves when it saves no task and no
\* response.
BareState ==
    [exists |-> TRUE, corrupt |-> FALSE,
     json |-> [last_observed_line |-> last.max_line + 1,
               transcript_path |-> last.path,
               current_task |-> None, suggested_response |-> None]]

\* C25 (wholesale overwrite): every save writes the whole cursor state from
\* the invocation's own values.  An invocation whose engine call fails or
\* returns the sentinel leaves a state of cursor and transcript path only,
\* whatever task and response an earlier invocation had saved, and the loader
\* gives no continuity section for it; any other saves what its own output
\* gave for the task and the response.  The loader's payload has the
\* continuity section exactly when the state it read holds one of the two.
C25_WholesaleOverwrite ==
    /\ (Called /\ (last.result = None \/ last.result = NO_NEW_OBSERVATIONS))
       => /\ state_file = BareState
          /\ ~load_observations(obs_file, state_file).continuity
    /\ (Called /\ ~nothing_new(last.result))
       => /\ state_file.exists /\ ~state_file.corrupt
          /\ state_file.json.transcript_path = last.path
          /\ state_file.json.current_task = Saved(Parsed.current_task)
          /\ state_file.json.suggested_response = Saved(Parsed.suggested_response)
    /\ (last.kind = "load" /\ last.payload.produced)
       => (last.payload.continuity
           <=> \/ load_state(last.state_before).current_task # None
               \/ load_state(last.state_before).suggested_response # None)

\* The engine returned the sentinel to an invocation that had found a task
\* saved by an earlier one: the task is gone from the state, and the loader,
\* which had a continuity section for the state as it was, has none now.
C25_Witness ==
    /\ Called
    /\ last.result = NO_NEW_OBSERVATIONS
    /\ last.state_before.json.current_task # None
    /\ state_file.json.current_task = None
    /\ state_file.json.last_observed_line > last.state_before.json.last_observed_line
    /\ load_observations(obs_file, last.state_before).continuity
    /\ load_observations(obs_file, state_file).produced
    /\ ~load_observations(obs_file, state_file).continuity

====
